---- MODULE Spec2Model ----
(***************************************************************************)
(* The bin / share / fee accounting engine of src/dlmm.py                  *)
(* (class DYNAMITE_DLMM with LiquidityBin and LPAccount).                  *)
(*                                                                         *)
(* Units.  Python floats are modelled as exact reals:                      *)
(*   - liquidity, shares and amounts are whole numbers of liquidity units; *)
(*   - prices and bin bounds are counted in half price units, so that the  *)
(*     price 0.5 is 1 and the price 1.0 is 2;                              *)
(*   - fees, bin_step and the `received' of a swap are counted in fee      *)
(*     units of 0.0001 liquidity unit (FeeScale fee units per unit);       *)
(*   - rewards are exact fractions <<numerator, denominator>> of a fee     *)
(*     unit, kept in lowest terms.                                         *)
(* Every public entry point runs under self.lock, so one call is one step. *)
(***************************************************************************)
EXTENDS Integers, Sequences, FiniteSets, TLC

(* ------------------------------ bounds --------------------------------- *)
\* number of engine calls explored from construction
MaxCalls == 3

(* --------------------------- input domains ----------------------------- *)
\* amounts a caller may pass; negative ones too, since no entry point checks
\* the sign of amount
Amounts == {0 - 50000, 50000, 100000}
LPs == {"LP001", "LP002"}
\* the bins handed to the constructor, in list (= dict insertion) order
BinBounds == << [lower_bound |-> 0, upper_bound |-> 2],
                [lower_bound |-> 2, upper_bound |-> 6] >>
BinIds == 1 .. Len(BinBounds)
\* bin ids a caller may pass: the known ones and one unknown
BinIdArgs == BinIds \cup {Len(BinBounds) + 1}
InitLiquidities == {0, 150000}
\* prices a caller may pass: inside bin 1, the shared bound of bins 1 and 2,
\* and the upper bound of the last bin
Prices == {1, 2, 6}
\* volatilities v for which v^1.25 is a whole number
Volatilities == {0, 16}
BaseFactors == {0, 1}
BinSteps == {1}

(* ------------------------- program constants --------------------------- *)
\* 0.0001, the floor of default_fee_hook, in fee units
FeeFloor == 1
\* fee units per liquidity unit (1 / 0.0001)
FeeScale == 10000
\* find_bin's `return None'
NoBin == 0
\* institutional_bin_reallocation: `bin.liquidity > 100_000'
ReallocThreshold == 100000
\* institutional_bin_reallocation: `bin.liquidity * 0.1', as a divisor
ReallocDivisor == 10

VARIABLES
    bins,         \* self.bins: bin_id -> LiquidityBin
    lp_accounts,  \* self.lp_accounts: address -> LPAccount
    base_factor,  \* self.base_factor
    bin_step,     \* self.bin_step
    last,         \* the call just made and what it gave back
    ncalls,       \* calls made so far
    summary,      \* what the latest successful get_lp_summary handed out
    deposited,    \* the LPs for which an add_liquidity has returned
    heap,         \* threads: the engine's objects as the threads share them
    lock,         \* threads: self.lock, "free" or the thread that holds it
    threads       \* threads: each thread's current call and its position

\* the engine as its callers see it from one whole call to the next
seqvars == << bins, lp_accounts, base_factor, bin_step, last, ncalls,
              summary, deposited >>

\* what only the threaded execution uses
tvars == << heap, lock, threads >>

vars == << seqvars, tvars >>

(* ----------------------------- arithmetic ------------------------------ *)
Abs(n) == IF n < 0 THEN 0 - n ELSE n

RECURSIVE GCD(_, _)
GCD(a, b) == IF b = 0 THEN Abs(a) ELSE GCD(b, a % Abs(b))

\* the fraction n/d (d # 0) in lowest terms with a positive denominator
Rat(n, d) ==
    LET g == GCD(Abs(n), Abs(d))
        s == IF d < 0 THEN 0 - 1 ELSE 1
    IN  << (s * n) \div g, (s * d) \div g >>

RatAdd(p, q) == Rat(p[1] * q[2] + q[1] * p[2], p[2] * q[2])

RatSub(p, q) == Rat(p[1] * q[2] - q[1] * p[2], p[2] * q[2])

RatLeq(p, q) == p[1] * q[2] <= q[1] * p[2]

RatZero == << 0, 1 >>

RECURSIVE RatSumOver(_, _)
RatSumOver(d, S) ==
    IF S = {} THEN RatZero
    ELSE LET k == CHOOSE x \in S : TRUE
         IN  RatAdd(d[k], RatSumOver(d, S \ {k}))

\* dict.get(key, 0)
Get(d, k) == IF k \in DOMAIN d THEN d[k] ELSE 0

\* d[k] = v, adding the key when absent
Put(d, k, v) == [x \in DOMAIN d \cup {k} |-> IF x = k THEN v ELSE d[x]]

RECURSIVE SumOver(_, _)
SumOver(d, S) ==
    IF S = {} THEN 0
    ELSE LET k == CHOOSE x \in S : TRUE IN d[k] + SumOver(d, S \ {k})

\* sum(d.values())
SumValues(d) == SumOver(d, DOMAIN d)

\* volatility ** 1.25 for the volatilities of the model (k^4 |-> k^5)
Pow125(v) == CASE v = 0 -> 0 [] v = 1 -> 1 [] v = 16 -> 32 [] v = 81 -> 243

(* ------------------------------ records -------------------------------- *)
\* LiquidityBin(bin_id, lower_bound, upper_bound, liquidity), lp_shares = {}
LiquidityBin(id, lo, hi, liq) ==
    [bin_id |-> id, lower_bound |-> lo, upper_bound |-> hi,
     liquidity |-> liq, lp_shares |-> << >>]

\* LPAccount(address)
LPAccount(addr) ==
    [address |-> addr, total_shares |-> 0, bin_positions |-> << >>,
     rewards |-> RatZero]

\* the call just made and what it gave back
Call(op, lp, b, p, a, v, err, res, nvol, nfee) ==
    [op |-> op, lp_address |-> lp, bin_id |-> b, price |-> p, amount |-> a,
     volatility |-> v, err |-> err, result |-> res,
     vol_calls |-> nvol, fee_calls |-> nfee]

NoResult == [filled |-> 0, fee |-> 0, received |-> 0, bin_id |-> NoBin]

\* the dict get_lp_summary returns.  "bin_positions" is the account's own
\* dict object, not a copy: `ref' names the account that owns it and
\* `at_call' keeps what it held when the summary was made
LpSummary(acct) ==
    [address |-> acct.address, total_shares |-> acct.total_shares,
     bin_positions |-> [ref |-> acct.address, at_call |-> acct.bin_positions],
     rewards |-> acct.rewards]

\* no summary handed out yet
NoSummary == LpSummary(LPAccount(""))

\* what the holder of a summary reads in its "bin_positions" now
Deref(positions) == lp_accounts[positions.ref].bin_positions

(* ------------------------------ helpers -------------------------------- *)
\* LiquidityBin.adjust_liquidity: the balance is updated first and checked
\* afterwards, so the raise leaves the new balance in place
adjust_liquidity(bin, delta) ==
    [bin |-> [bin EXCEPT !.liquidity = @ + delta],
     raised |-> bin.liquidity + delta < 0]

\* mutant: no floor under the fee
default_fee_hook_no_floor(price, volatility) ==
    base_factor * bin_step + bin_step * Pow125(volatility)

\* DYNAMITE_DLMM.default_fee_hook
default_fee_hook(price, volatility) ==
    LET base_fee == base_factor * bin_step
        variable_fee == bin_step * Pow125(volatility)
    IN  IF base_fee + variable_fee >= FeeFloor
        THEN base_fee + variable_fee ELSE FeeFloor

\* mutant: the upper bound belongs to the bin
find_bin_closed(price) ==
    LET hits == {b \in DOMAIN bins : bins[b].lower_bound <= price
                                     /\ price <= bins[b].upper_bound}
    IN  IF hits = {} THEN NoBin
        ELSE CHOOSE b \in hits : \A c \in hits : b <= c

\* DYNAMITE_DLMM.find_bin over the bins bs: first bin, in insertion order,
\* that covers price
find_bin_in(bs, price) ==
    LET hits == {b \in DOMAIN bs : bs[b].lower_bound <= price
                                   /\ price < bs[b].upper_bound}
    IN  IF hits = {} THEN NoBin
        ELSE CHOOSE b \in hits : \A c \in hits : b <= c

\* DYNAMITE_DLMM.find_bin
find_bin(price) == find_bin_in(bins, price)

\* mutant: the fee is split evenly among the holders of the bin
accrue_fees_even(accounts, b, fee) ==
    LET shares == bins[b].lp_shares
        total_shares == SumValues(shares)
        credit(lp) == IF total_shares # 0
                      THEN Rat(fee, Cardinality(DOMAIN shares))
                      ELSE RatZero
    IN  [lp \in DOMAIN accounts |->
            IF lp \in DOMAIN shares
            THEN [accounts[lp] EXCEPT !.rewards = RatAdd(@, credit(lp))]
            ELSE accounts[lp]]

\* mutant: with no shares outstanding every holder is credited the whole fee
accrue_fees_zero_total(accounts, b, fee) ==
    LET shares == bins[b].lp_shares
        total_shares == SumValues(shares)
        credit(lp) == IF total_shares # 0
                      THEN Rat(fee * shares[lp], total_shares)
                      ELSE Rat(fee, 1)
    IN  [lp \in DOMAIN accounts |->
            IF lp \in DOMAIN shares
            THEN [accounts[lp] EXCEPT !.rewards = RatAdd(@, credit(lp))]
            ELSE accounts[lp]]

\* DYNAMITE_DLMM._accrue_fees: the accounts after crediting fee pro rata to
\* the holders of bin b of bs.  Every key of lp_shares has an account
\* (add_liquidity creates it first and accounts are never deleted), each key
\* is visited once
accrue_fees_in(bs, accounts, b, fee) ==
    LET shares == bs[b].lp_shares
        total_shares == SumValues(shares)
        credit(lp) == IF total_shares # 0
                      THEN Rat(fee * shares[lp], total_shares)
                      ELSE RatZero
    IN  [lp \in DOMAIN accounts |->
            IF lp \in DOMAIN shares
            THEN [accounts[lp] EXCEPT !.rewards = RatAdd(@, credit(lp))]
            ELSE accounts[lp]]

\* DYNAMITE_DLMM._accrue_fees
accrue_fees(accounts, b, fee) == accrue_fees_in(bins, accounts, b, fee)

(* ------------------------------- Init ---------------------------------- *)
\* one caller at a time: no thread is running and the lock is free
NoThreads ==
    /\ heap = [bins |-> << >>, lp_accounts |-> << >>]
    /\ lock = "free"
    /\ threads = << >>

Init ==
    /\ \E liq \in [BinIds -> InitLiquidities] :
          bins = [b \in BinIds |->
                    LiquidityBin(b, BinBounds[b].lower_bound,
                                 BinBounds[b].upper_bound, liq[b])]
    /\ lp_accounts = << >>
    /\ base_factor \in BaseFactors
    /\ bin_step \in BinSteps
    /\ last = Call("init", "", NoBin, 0, 0, 0, "none", NoResult, 0, 0)
    /\ ncalls = 0
    /\ summary = NoSummary
    /\ deposited = {}
    /\ NoThreads

(* ------------------------------ actions -------------------------------- *)
Finishes(call) ==
    /\ last' = call
    /\ ncalls' = ncalls + 1
    /\ deposited' = IF call.op = "add_liquidity" /\ call.err = "none"
                    THEN deposited \cup {call.lp_address} ELSE deposited
    /\ UNCHANGED << base_factor, bin_step >>

Returns(call) == Finishes(call) /\ UNCHANGED summary

\* DYNAMITE_DLMM.swap
swap(price, amount, volatility) ==
    LET b == find_bin(price)
        fee == default_fee_hook(price, volatility)
        total_out == amount * FeeScale - fee
        adj == adjust_liquidity(bins[b], 0 - amount)
        call(err, res, n) ==
            Call("swap", "", NoBin, price, amount, volatility, err, res, n, n)
    IN  /\ ncalls < MaxCalls
        /\ IF b = NoBin
           THEN /\ Returns(call("NoLiquidityForPrice", NoResult, 0))
                /\ UNCHANGED << bins, lp_accounts >>
           ELSE IF bins[b].liquidity < amount
           THEN /\ Returns(call("InsufficientLiquidity", NoResult, 0))
                /\ UNCHANGED << bins, lp_accounts >>
           ELSE IF adj.raised
           THEN /\ Returns(call("NegativeLiquidity", NoResult, 1))
                /\ bins' = [bins EXCEPT ![b] = adj.bin]
                /\ UNCHANGED lp_accounts
           ELSE /\ Returns(call("none",
                                [filled |-> amount, fee |-> fee,
                                 received |-> total_out, bin_id |-> b], 1))
                /\ bins' = [bins EXCEPT ![b] = adj.bin]
                /\ lp_accounts' = accrue_fees(lp_accounts, b, fee)

\* DYNAMITE_DLMM.add_liquidity
add_liquidity(lp_address, bin_id, amount) ==
    LET adj == adjust_liquidity(bins[bin_id], amount)
        acct == IF lp_address \in DOMAIN lp_accounts
                THEN lp_accounts[lp_address] ELSE LPAccount(lp_address)
        lp == [acct EXCEPT
                 !.total_shares = @ + amount,
                 !.bin_positions =
                     Put(@, bin_id, Get(acct.bin_positions, bin_id) + amount)]
        call(err) == Call("add_liquidity", lp_address, bin_id, 0, amount, 0,
                          err, NoResult, 0, 0)
    IN  /\ ncalls < MaxCalls
        /\ IF bin_id \notin DOMAIN bins
           THEN /\ Returns(call("InvalidBin"))
                /\ UNCHANGED << bins, lp_accounts >>
           ELSE IF adj.raised
           THEN /\ Returns(call("NegativeLiquidity"))
                /\ bins' = [bins EXCEPT ![bin_id] = adj.bin]
                /\ UNCHANGED lp_accounts
           ELSE /\ Returns(call("none"))
                /\ lp_accounts' = Put(lp_accounts, lp_address, lp)
                /\ bins' = [bins EXCEPT ![bin_id] =
                              [adj.bin EXCEPT !.lp_shares =
                                 Put(@, lp_address,
                                     Get(adj.bin.lp_shares, lp_address)
                                       + amount)]]

\* mutant: the check looks at the LP's shares over all bins
insufficient_shares_total(lp_address, bin_id, amount) ==
    \/ lp_address \notin DOMAIN lp_accounts
    \/ lp_accounts[lp_address].total_shares < amount

\* remove_liquidity's share check: `lp_address not in self.lp_accounts or
\* bin.lp_shares.get(lp_address, 0) < amount'
insufficient_shares(lp_address, bin_id, amount) ==
    \/ lp_address \notin DOMAIN lp_accounts
    \/ Get(bins[bin_id].lp_shares, lp_address) < amount

\* mutant: the bin's lp_shares entry is not lowered
remove_liquidity_keeps_shares(lp_address, bin_id, amount) ==
    LET adj == adjust_liquidity(bins[bin_id], 0 - amount)
        acct == lp_accounts[lp_address]
        lp1 == [acct EXCEPT !.total_shares = @ - amount]
        lp2 == [lp1 EXCEPT !.bin_positions[bin_id] = @ - amount]
        call(err) == Call("remove_liquidity", lp_address, bin_id, 0, amount,
                          0, err, NoResult, 0, 0)
    IN  /\ ncalls < MaxCalls
        /\ IF bin_id \notin DOMAIN bins
           THEN /\ Returns(call("InvalidBin"))
                /\ UNCHANGED << bins, lp_accounts >>
           ELSE IF insufficient_shares(lp_address, bin_id, amount)
           THEN /\ Returns(call("InsufficientShares"))
                /\ UNCHANGED << bins, lp_accounts >>
           ELSE IF adj.raised
           THEN /\ Returns(call("NegativeLiquidity"))
                /\ bins' = [bins EXCEPT ![bin_id] = adj.bin]
                /\ UNCHANGED lp_accounts
           ELSE IF bin_id \notin DOMAIN acct.bin_positions
           THEN \* lp.bin_positions[bin_id] -= amount raises KeyError
                /\ Returns(call("KeyError"))
                /\ bins' = [bins EXCEPT ![bin_id] = adj.bin]
                /\ lp_accounts' = [lp_accounts EXCEPT ![lp_address] = lp1]
           ELSE IF lp_address \notin DOMAIN bins[bin_id].lp_shares
           THEN \* bin.lp_shares[lp_address] -= amount raises KeyError
                /\ Returns(call("KeyError"))
                /\ bins' = [bins EXCEPT ![bin_id] = adj.bin]
                /\ lp_accounts' = [lp_accounts EXCEPT ![lp_address] = lp2]
           ELSE /\ Returns(call("none"))
                /\ lp_accounts' = [lp_accounts EXCEPT ![lp_address] = lp2]
                /\ bins' = [bins EXCEPT ![bin_id] = adj.bin]

\* DYNAMITE_DLMM.remove_liquidity
remove_liquidity(lp_address, bin_id, amount) ==
    LET adj == adjust_liquidity(bins[bin_id], 0 - amount)
        acct == lp_accounts[lp_address]
        lp1 == [acct EXCEPT !.total_shares = @ - amount]
        lp2 == [lp1 EXCEPT !.bin_positions[bin_id] = @ - amount]
        call(err) == Call("remove_liquidity", lp_address, bin_id, 0, amount,
                          0, err, NoResult, 0, 0)
    IN  /\ ncalls < MaxCalls
        /\ IF bin_id \notin DOMAIN bins
           THEN /\ Returns(call("InvalidBin"))
                /\ UNCHANGED << bins, lp_accounts >>
           ELSE IF insufficient_shares(lp_address, bin_id, amount)
           THEN /\ Returns(call("InsufficientShares"))
                /\ UNCHANGED << bins, lp_accounts >>
           ELSE IF adj.raised
           THEN /\ Returns(call("NegativeLiquidity"))
                /\ bins' = [bins EXCEPT ![bin_id] = adj.bin]
                /\ UNCHANGED lp_accounts
           ELSE IF bin_id \notin DOMAIN acct.bin_positions
           THEN \* lp.bin_positions[bin_id] -= amount raises KeyError
                /\ Returns(call("KeyError"))
                /\ bins' = [bins EXCEPT ![bin_id] = adj.bin]
                /\ lp_accounts' = [lp_accounts EXCEPT ![lp_address] = lp1]
           ELSE IF lp_address \notin DOMAIN bins[bin_id].lp_shares
           THEN \* bin.lp_shares[lp_address] -= amount raises KeyError
                /\ Returns(call("KeyError"))
                /\ bins' = [bins EXCEPT ![bin_id] = adj.bin]
                /\ lp_accounts' = [lp_accounts EXCEPT ![lp_address] = lp2]
           ELSE /\ Returns(call("none"))
                /\ lp_accounts' = [lp_accounts EXCEPT ![lp_address] = lp2]
                /\ bins' = [bins EXCEPT ![bin_id] =
                              [adj.bin EXCEPT
                                 !.lp_shares[lp_address] = @ - amount]]

\* institutional_bin_reallocation: `max(dlmm.bins.values(), key=width)',
\* the first bin of greatest width in insertion order
high_vol_bin(bs) ==
    LET width(b) == bs[b].upper_bound - bs[b].lower_bound
        widest == {b \in DOMAIN bs : \A c \in DOMAIN bs : width(c) <= width(b)}
    IN  CHOOSE b \in widest : \A c \in widest : b <= c

\* institutional_bin_reallocation: the loop over the bins from bin id `from'
\* on; a raise of adjust_liquidity ends it with the balances as they then are
RECURSIVE realloc_loop(_, _, _)
realloc_loop(bs, from, high) ==
    IF from \notin DOMAIN bs THEN [bins |-> bs, raised |-> FALSE]
    ELSE IF from # high /\ bs[from].liquidity > ReallocThreshold
    THEN LET transfer == bs[from].liquidity \div ReallocDivisor
             out == adjust_liquidity(bs[from], 0 - transfer)
             bs1 == [bs EXCEPT ![from] = out.bin]
             inn == adjust_liquidity(bs1[high], transfer)
             bs2 == [bs1 EXCEPT ![high] = inn.bin]
         IN  IF out.raised THEN [bins |-> bs1, raised |-> TRUE]
             ELSE IF inn.raised THEN [bins |-> bs2, raised |-> TRUE]
             ELSE realloc_loop(bs2, from + 1, high)
    ELSE realloc_loop(bs, from + 1, high)

institutional_bin_reallocation(bs) == realloc_loop(bs, 1, high_vol_bin(bs))

\* DYNAMITE_DLMM.reallocate_liquidity with institutional_bin_reallocation as
\* the strategy.  A tenth of a balance is a whole number in every call taken
reallocate_liquidity(volatility) ==
    LET r == institutional_bin_reallocation(bins)
    IN  /\ ncalls < MaxCalls
        /\ \A b \in DOMAIN bins :
              (b # high_vol_bin(bins) /\ bins[b].liquidity > ReallocThreshold)
                 => bins[b].liquidity % ReallocDivisor = 0
        /\ Returns(Call("reallocate_liquidity", "", NoBin, 0, 0, volatility,
                        IF r.raised THEN "NegativeLiquidity" ELSE "none",
                        NoResult, 1, 0))
        /\ bins' = r.bins
        /\ UNCHANGED lp_accounts

\* mutant: an account without shares counts as absent
lp_found_with_shares(lp_address) ==
    /\ lp_address \in DOMAIN lp_accounts
    /\ lp_accounts[lp_address].total_shares # 0

\* get_lp_summary's lookup: `lp = self.lp_accounts.get(lp_address)' is an
\* account (an LPAccount object is always truthy)
lp_found(lp_address) == lp_address \in DOMAIN lp_accounts

\* DYNAMITE_DLMM.get_lp_summary
get_lp_summary(lp_address) ==
    LET call(err) == Call("get_lp_summary", lp_address, NoBin, 0, 0, 0, err,
                          NoResult, 0, 0)
    IN  /\ ncalls < MaxCalls
        /\ IF ~ lp_found(lp_address)
           THEN /\ Finishes(call("LpNotFound"))
                /\ UNCHANGED summary
           ELSE /\ Finishes(call("none"))
                /\ summary' = LpSummary(lp_accounts[lp_address])
        /\ UNCHANGED << bins, lp_accounts >>

\* one whole call of a lock-taking entry point
LockedCall ==
    \/ \E p \in Prices, a \in Amounts, v \in Volatilities : swap(p, a, v)
    \/ \E lp \in LPs, b \in BinIdArgs, a \in Amounts : add_liquidity(lp, b, a)
    \/ \E lp \in LPs, b \in BinIdArgs, a \in Amounts :
          remove_liquidity(lp, b, a)
    \/ \E v \in Volatilities : reallocate_liquidity(v)

Next ==
    \/ UNCHANGED tvars
       /\ \E p \in Prices, a \in Amounts, v \in Volatilities : swap(p, a, v)
    \/ UNCHANGED tvars
       /\ \E lp \in LPs, b \in BinIdArgs, a \in Amounts :
             add_liquidity(lp, b, a)
    \/ UNCHANGED tvars
       /\ \E lp \in LPs, b \in BinIdArgs, a \in Amounts :
             remove_liquidity(lp, b, a)
    \/ UNCHANGED tvars
       /\ \E v \in Volatilities : reallocate_liquidity(v)
    \/ UNCHANGED tvars
       /\ \E lp \in LPs : get_lp_summary(lp)

Spec == Init /\ [][Next]_vars

(* ------------- an engine of three bins, the widest in the middle -------- *)
BinBounds3 == << [lower_bound |-> 0, upper_bound |-> 2],
                 [lower_bound |-> 2, upper_bound |-> 6],
                 [lower_bound |-> 6, upper_bound |-> 8] >>

\* starting balances of the three bins: above, at and below the threshold of
\* the reallocation policy
InitLiquidities3 ==
    { << 150000, 0, 150000 >>, << 150000, 150000, 100000 >>,
      << 50000, 0, 150000 >> }

InitRealloc ==
    /\ \E liq \in InitLiquidities3 :
          bins = [b \in 1 .. Len(BinBounds3) |->
                    LiquidityBin(b, BinBounds3[b].lower_bound,
                                 BinBounds3[b].upper_bound, liq[b])]
    /\ lp_accounts = << >>
    /\ base_factor \in BaseFactors
    /\ bin_step \in BinSteps
    /\ last = Call("init", "", NoBin, 0, 0, 0, "none", NoResult, 0, 0)
    /\ ncalls = 0
    /\ summary = NoSummary
    /\ deposited = {}
    /\ NoThreads

NextRealloc ==
    \/ UNCHANGED tvars
       /\ \E p \in {1, 3, 7}, v \in Volatilities : swap(p, 50000, v)
    \/ UNCHANGED tvars
       /\ \E b \in 1 .. Len(BinBounds3), a \in Amounts :
             add_liquidity("LP001", b, a)
    \/ UNCHANGED tvars
       /\ \E b \in 1 .. Len(BinBounds3), a \in Amounts :
             remove_liquidity("LP001", b, a)
    \/ UNCHANGED tvars
       /\ \E v \in Volatilities : reallocate_liquidity(v)

SpecRealloc == InitRealloc /\ [][NextRealloc]_vars

(* ------------------- the engine under several threads ------------------- *)
(* Each thread makes one call after another.  A call runs statement by      *)
(* statement on the shared objects in heap; `with self.lock' is the acquire *)
(* step before the body and the release step after it, taken on return and  *)
(* on raise alike.  At its release a call's outcome is handed over to bins, *)
(* lp_accounts and last, which thus show the engine between whole calls.    *)
(* get_lp_summary takes no lock and reads the shared objects as they are.   *)
Threads == {"T1", "T2"}

\* calls started by all threads together
MaxThreadCalls == 2

\* the entry points a callback may call back into
EntryPoints == {"swap", "add_liquidity", "remove_liquidity",
                "reallocate_liquidity", "get_lp_summary"}

\* the callbacks the engine invokes while it holds the lock
Hooks == {"volatility_source", "fee_hook", "strategy"}

\* an LP's account as a query may report it
View(accounts, lp) ==
    IF lp \in DOMAIN accounts
    THEN [found |-> TRUE, total_shares |-> accounts[lp].total_shares,
          bin_positions |-> accounts[lp].bin_positions,
          rewards |-> accounts[lp].rewards]
    ELSE [found |-> FALSE, total_shares |-> 0, bin_positions |-> << >>,
          rewards |-> RatZero]

\* a thread's call: the arguments, the callback that calls back into the
\* engine (hook, reenter), the position pc, the locals b and fee, and the
\* outcome err, result, view
Frame(pc, op, lp, b, p, a, v, hook, reenter, n) ==
    [pc |-> pc, op |-> op, lp_address |-> lp, bin_id |-> b, price |-> p,
     amount |-> a, volatility |-> v, hook |-> hook, reenter |-> reenter,
     reentered |-> "none", nested |-> FALSE, ret |-> "",
     b |-> NoBin, fee |-> 0, err |-> "none", result |-> NoResult,
     view |-> View(<< >>, lp), seen |-> {}, calls |-> n]

IdleFrame == Frame("idle", "none", "", NoBin, 0, 0, 0, "none", "none", 0)

\* the calls a thread may make
ThreadCalls ==
    {Frame("acquire", "add_liquidity", "LP001", b, 0, a, 0, "none", "none", 0) :
        b \in {1, 3}, a \in {50000}}
    \cup {Frame("acquire", "remove_liquidity", "LP001", 1, 0, 50000, 0,
                "none", "none", 0)}
    \cup {Frame("acquire", "swap", "", NoBin, p, 50000, 16, "none", "none", 0) :
             p \in {1, 6}}
    \cup {Frame("acquire", "reallocate_liquidity", "", NoBin, 0, 0, 16,
                "none", "none", 0)}
    \cup {Frame("q_get", "get_lp_summary", "LP001", NoBin, 0, 0, 0,
                "none", "none", 0)}

\* calls whose callback calls back into the engine
ReentrantCalls ==
    {Frame("acquire", "reallocate_liquidity", "", NoBin, 0, 0, 16,
           "strategy", e, 0) : e \in EntryPoints}
    \cup {Frame("acquire", "swap", "", NoBin, 1, 50000, 16, h, e, 0) :
             h \in {"volatility_source", "fee_hook"}, e \in EntryPoints}

CallsStarted == SumValues([t \in Threads |-> threads[t].calls])

InFlightQuery(f) ==
    f.op = "get_lp_summary" /\ f.pc \in {"q_get", "q_total", "q_pos", "q_rewards"}

InitThreads ==
    /\ \E liq \in [BinIds -> InitLiquidities] :
          bins = [b \in BinIds |->
                    LiquidityBin(b, BinBounds[b].lower_bound,
                                 BinBounds[b].upper_bound, liq[b])]
    /\ lp_accounts = << >>
    /\ base_factor \in BaseFactors
    /\ bin_step \in BinSteps
    /\ last = Call("init", "", NoBin, 0, 0, 0, "none", NoResult, 0, 0)
    /\ ncalls = 0
    /\ summary = NoSummary
    /\ deposited = {}
    /\ heap = [bins |-> bins, lp_accounts |-> lp_accounts]
    /\ lock = "free"
    /\ threads = [t \in Threads |-> IdleFrame]

\* thread t moves on to frame f; nothing but its own frame changes
Moves(t, f) ==
    /\ threads' = [threads EXCEPT ![t] = f]
    /\ UNCHANGED << seqvars, lock >>

\* mutant: a raise leaves the body without releasing the lock
raises_without_release(f, err) == [f EXCEPT !.err = err, !.pc = "done"]

\* an exception leaves the `with self.lock:' block, which releases the lock
raises(f, err) == [f EXCEPT !.err = err, !.pc = "release"]

\* the callback `hook' of the call calls back into entry point f.reenter:
\* get_lp_summary starts at once, the others at `with self.lock:'; when the
\* inner call returns the outer one goes on at `ret'
calls_back(f, ret) ==
    [f EXCEPT !.reentered = f.reenter, !.reenter = "none", !.nested = TRUE,
              !.ret = ret,
              !.pc = IF f.reenter = "get_lp_summary" THEN "q_get"
                     ELSE "acquire"]

\* thread t starts call c
start(t, c) ==
    /\ threads[t].pc \in {"idle", "done"}
    /\ CallsStarted < MaxThreadCalls
    /\ Moves(t, [c EXCEPT !.calls = threads[t].calls + 1,
                          !.seen = IF c.op = "get_lp_summary"
                                   THEN {View(lp_accounts, c.lp_address)}
                                   ELSE {}])
    /\ UNCHANGED heap

\* mutant: the lock is taken whether or not it is free
acquire_unguarded(t) ==
    /\ threads[t].pc = "acquire"
    /\ lock' = t
    /\ threads' = [threads EXCEPT ![t].pc =
                      CASE threads[t].op = "swap" -> "s_check"
                        [] threads[t].op = "add_liquidity" -> "a_get"
                        [] threads[t].op = "remove_liquidity" -> "r_check"
                        [] threads[t].op = "reallocate_liquidity" -> "x_strategy"]
    /\ UNCHANGED << seqvars, heap >>

\* `with self.lock:' on entry: threading.Lock is not reentrant, the thread
\* waits until the lock is free, also when it holds the lock itself
acquire(t) ==
    /\ threads[t].pc = "acquire"
    /\ lock = "free"
    /\ lock' = t
    /\ threads' = [threads EXCEPT ![t].pc =
                      CASE threads[t].op = "swap" -> "s_check"
                        [] threads[t].op = "add_liquidity" -> "a_get"
                        [] threads[t].op = "remove_liquidity" -> "r_check"
                        [] threads[t].op = "reallocate_liquidity" -> "x_strategy"]
    /\ UNCHANGED << seqvars, heap >>

\* DYNAMITE_DLMM.swap, one statement at a time
swap_step(t) ==
    LET f == threads[t]
        b == find_bin_in(heap.bins, f.price)
        adj == adjust_liquidity(heap.bins[f.b], 0 - f.amount)
        fee == default_fee_hook(f.price, f.volatility)
    IN  \/ /\ f.pc = "s_check"
           /\ Moves(t, IF b = NoBin THEN raises(f, "NoLiquidityForPrice")
                       ELSE IF heap.bins[b].liquidity < f.amount
                       THEN raises(f, "InsufficientLiquidity")
                       ELSE [f EXCEPT !.b = b, !.pc = "s_vol"])
           /\ UNCHANGED heap
        \/ /\ f.pc = "s_vol"
           /\ Moves(t, IF f.hook = "volatility_source" /\ f.reenter # "none"
                       THEN calls_back(f, "s_fee")
                       ELSE [f EXCEPT !.pc = "s_fee"])
           /\ UNCHANGED heap
        \/ /\ f.pc = "s_fee"
           /\ Moves(t, IF f.hook = "fee_hook" /\ f.reenter # "none"
                       THEN calls_back([f EXCEPT !.fee = fee], "s_adjust")
                       ELSE [f EXCEPT !.fee = fee, !.pc = "s_adjust"])
           /\ UNCHANGED heap
        \/ /\ f.pc = "s_adjust"
           /\ heap' = [heap EXCEPT !.bins[f.b] = adj.bin]
           /\ Moves(t, IF adj.raised THEN raises(f, "NegativeLiquidity")
                       ELSE [f EXCEPT !.pc = "s_accrue"])
        \/ /\ f.pc = "s_accrue"
           /\ heap' = [heap EXCEPT !.lp_accounts =
                          accrue_fees_in(heap.bins, @, f.b, f.fee)]
           /\ Moves(t, [f EXCEPT
                          !.result = [filled |-> f.amount, fee |-> f.fee,
                                      received |-> f.amount * FeeScale - f.fee,
                                      bin_id |-> f.b],
                          !.pc = "release"])

\* DYNAMITE_DLMM.add_liquidity, one statement at a time
add_step(t) ==
    LET f == threads[t]
        lp == f.lp_address
        adj == adjust_liquidity(heap.bins[f.bin_id], f.amount)
        acct == heap.lp_accounts[lp]
    IN  \/ /\ f.pc = "a_get"
           /\ Moves(t, IF f.bin_id \notin DOMAIN heap.bins
                       THEN raises(f, "InvalidBin")
                       ELSE [f EXCEPT !.pc = "a_adjust"])
           /\ UNCHANGED heap
        \/ /\ f.pc = "a_adjust"
           /\ heap' = [heap EXCEPT !.bins[f.bin_id] = adj.bin]
           /\ Moves(t, IF adj.raised THEN raises(f, "NegativeLiquidity")
                       ELSE [f EXCEPT !.pc = "a_account"])
        \/ /\ f.pc = "a_account"
           /\ heap' = IF lp \in DOMAIN heap.lp_accounts THEN heap
                      ELSE [heap EXCEPT !.lp_accounts = Put(@, lp, LPAccount(lp))]
           /\ Moves(t, [f EXCEPT !.pc = "a_total"])
        \/ /\ f.pc = "a_total"
           /\ heap' = [heap EXCEPT !.lp_accounts[lp].total_shares = @ + f.amount]
           /\ Moves(t, [f EXCEPT !.pc = "a_pos"])
        \/ /\ f.pc = "a_pos"
           /\ heap' = [heap EXCEPT !.lp_accounts[lp].bin_positions =
                          Put(@, f.bin_id,
                              Get(acct.bin_positions, f.bin_id) + f.amount)]
           /\ Moves(t, [f EXCEPT !.pc = "a_shares"])
        \/ /\ f.pc = "a_shares"
           /\ heap' = [heap EXCEPT !.bins[f.bin_id].lp_shares =
                          Put(@, lp, Get(heap.bins[f.bin_id].lp_shares, lp)
                                       + f.amount)]
           /\ Moves(t, [f EXCEPT !.pc = "release"])

\* DYNAMITE_DLMM.remove_liquidity, one statement at a time
remove_step(t) ==
    LET f == threads[t]
        lp == f.lp_address
        adj == adjust_liquidity(heap.bins[f.bin_id], 0 - f.amount)
    IN  \/ /\ f.pc = "r_check"
           /\ Moves(t, IF f.bin_id \notin DOMAIN heap.bins
                       THEN raises(f, "InvalidBin")
                       ELSE IF \/ lp \notin DOMAIN heap.lp_accounts
                               \/ Get(heap.bins[f.bin_id].lp_shares, lp)
                                    < f.amount
                       THEN raises(f, "InsufficientShares")
                       ELSE [f EXCEPT !.pc = "r_adjust"])
           /\ UNCHANGED heap
        \/ /\ f.pc = "r_adjust"
           /\ heap' = [heap EXCEPT !.bins[f.bin_id] = adj.bin]
           /\ Moves(t, IF adj.raised THEN raises(f, "NegativeLiquidity")
                       ELSE [f EXCEPT !.pc = "r_total"])
        \/ /\ f.pc = "r_total"
           /\ heap' = [heap EXCEPT !.lp_accounts[lp].total_shares = @ - f.amount]
           /\ Moves(t, [f EXCEPT !.pc = "r_pos"])
        \/ /\ f.pc = "r_pos"
           /\ IF f.bin_id \in DOMAIN heap.lp_accounts[lp].bin_positions
              THEN /\ heap' = [heap EXCEPT
                                 !.lp_accounts[lp].bin_positions[f.bin_id] =
                                     @ - f.amount]
                   /\ Moves(t, [f EXCEPT !.pc = "r_shares"])
              ELSE /\ UNCHANGED heap
                   /\ Moves(t, raises(f, "KeyError"))
        \/ /\ f.pc = "r_shares"
           /\ IF lp \in DOMAIN heap.bins[f.bin_id].lp_shares
              THEN /\ heap' = [heap EXCEPT !.bins[f.bin_id].lp_shares[lp] =
                                  @ - f.amount]
                   /\ Moves(t, [f EXCEPT !.pc = "release"])
              ELSE /\ UNCHANGED heap
                   /\ Moves(t, raises(f, "KeyError"))

\* DYNAMITE_DLMM.reallocate_liquidity: the strategy is either one that calls
\* back into the engine and does nothing else, or
\* institutional_bin_reallocation
realloc_step(t) ==
    LET f == threads[t]
        r == institutional_bin_reallocation(heap.bins)
    IN  /\ f.pc = "x_strategy"
        /\ IF f.reenter # "none"
           THEN /\ Moves(t, calls_back(f, "release"))
                /\ UNCHANGED heap
           ELSE /\ \A b \in DOMAIN heap.bins :
                      ( /\ b # high_vol_bin(heap.bins)
                        /\ heap.bins[b].liquidity > ReallocThreshold )
                      => heap.bins[b].liquidity % ReallocDivisor = 0
                /\ heap' = [heap EXCEPT !.bins = r.bins]
                /\ Moves(t, IF r.raised THEN raises(f, "NegativeLiquidity")
                            ELSE [f EXCEPT !.pc = "release"])

\* where a finished get_lp_summary goes: back into the callback that made
\* the call, or out to the thread's caller
query_returns(f) ==
    IF f.nested THEN [f EXCEPT !.pc = f.ret, !.nested = FALSE]
    ELSE [f EXCEPT !.pc = "done"]

\* DYNAMITE_DLMM.get_lp_summary, one read at a time, no lock taken; a nested
\* call asks for LP001, and its ValueError goes up through the callback and
\* out of the `with self.lock:' block of the outer call
summary_step(t) ==
    LET f == threads[t]
        lp == IF f.nested THEN "LP001" ELSE f.lp_address
        acct == heap.lp_accounts[lp]
    IN  /\ UNCHANGED heap
        /\ \/ /\ f.pc = "q_get"
              /\ Moves(t, IF lp \in DOMAIN heap.lp_accounts
                          THEN [f EXCEPT !.view = View(<< >>, lp),
                                         !.view.found = TRUE,
                                         !.pc = "q_total"]
                          ELSE IF f.nested
                          THEN raises([f EXCEPT !.nested = FALSE],
                                      "LpNotFound")
                          ELSE [f EXCEPT !.view = View(<< >>, lp),
                                         !.err = "LpNotFound",
                                         !.pc = "done"])
           \/ /\ f.pc = "q_total"
              /\ Moves(t, [f EXCEPT !.view.total_shares = acct.total_shares,
                                    !.pc = "q_pos"])
           \/ /\ f.pc = "q_pos"
              /\ Moves(t, [f EXCEPT !.view.bin_positions = acct.bin_positions,
                                    !.pc = "q_rewards"])
           \/ /\ f.pc = "q_rewards"
              /\ Moves(t, query_returns(
                             [f EXCEPT !.view.rewards = acct.rewards]))

\* the call of thread t as the engine's callers see it once it is over
Outcome(f) ==
    LET n == IF f.op = "swap"
                /\ f.err \notin {"NoLiquidityForPrice", "InsufficientLiquidity"}
             THEN 1 ELSE 0
    IN  IF f.op = "reallocate_liquidity"
        THEN Call(f.op, "", NoBin, 0, 0, f.volatility, f.err, NoResult, 1, 0)
        ELSE Call(f.op, f.lp_address, f.bin_id, f.price, f.amount,
                  f.volatility, f.err, f.result, n, n)

\* `with self.lock:' on exit, by return or by raise: the lock is released and
\* the call is over.  Queries in flight may from now on report the accounts
\* as this call left them
release(t) ==
    LET f == threads[t]
        quiet == f.op = "reallocate_liquidity" /\ f.reentered # "none"
    IN  /\ f.pc = "release"
        /\ lock' = "free"
        /\ threads' =
              [u \in Threads |->
                 IF u = t THEN [f EXCEPT !.pc = "done"]
                 ELSE IF InFlightQuery(threads[u]) /\ ~ threads[u].nested
                 THEN [threads[u] EXCEPT !.seen =
                          @ \cup {View(heap.lp_accounts,
                                       threads[u].lp_address)}]
                 ELSE threads[u]]
        /\ bins' = heap.bins
        /\ lp_accounts' = heap.lp_accounts
        /\ IF quiet
           THEN UNCHANGED << last, ncalls, deposited >>
           ELSE /\ last' = Outcome(f)
                /\ ncalls' = ncalls + 1
                /\ deposited' =
                      IF f.op = "add_liquidity" /\ f.err = "none"
                      THEN deposited \cup {f.lp_address} ELSE deposited
        /\ UNCHANGED << base_factor, bin_step, summary, heap >>

ThreadStep(t) ==
    \/ acquire(t)
    \/ swap_step(t)
    \/ add_step(t)
    \/ remove_step(t)
    \/ realloc_step(t)
    \/ summary_step(t)
    \/ release(t)

\* threads whose callbacks keep out of the engine
NextThreads ==
    \/ \E t \in Threads, c \in ThreadCalls : start(t, c)
    \/ \E t \in Threads : acquire(t)
    \/ \E t \in Threads : swap_step(t)
    \/ \E t \in Threads : add_step(t)
    \/ \E t \in Threads : remove_step(t)
    \/ \E t \in Threads : realloc_step(t)
    \/ \E t \in Threads : summary_step(t)
    \/ \E t \in Threads : release(t)

SpecThreads == InitThreads /\ [][NextThreads]_vars

\* every thread that can take a step is scheduled in the end
FairThreads == SpecThreads /\ \A t \in Threads : WF_vars(ThreadStep(t))

\* threads whose callbacks may call back into the engine
NextReentrant ==
    \/ NextThreads
    \/ \E t \in Threads, c \in ReentrantCalls : start(t, c)

SpecReentrant == InitThreads /\ [][NextReentrant]_vars

(* ------------------- vocabulary of the properties ---------------------- *)
\* the bins whose half-open interval [lower_bound, upper_bound) holds price
Covering(price) ==
    {b \in BinIds : BinBounds[b].lower_bound <= price
                    /\ price < BinBounds[b].upper_bound}

EngineUnchanged == bins' = bins /\ lp_accounts' = lp_accounts

\* the shares and positions of every account, rewards left aside
Holdings(accounts) ==
    [lp \in DOMAIN accounts |->
        << accounts[lp].total_shares, accounts[lp].bin_positions >>]

\* max(base_factor * bin_step + bin_step * volatility^1.25, 0.0001)
FeeModel(volatility) ==
    LET f == base_factor * bin_step + bin_step * Pow125(volatility)
    IN  IF f < FeeFloor THEN FeeFloor ELSE f

(* ------------------------------- C1 ------------------------------------ *)
\* C1: in every reachable state every bin has liquidity >= 0.
C1_LiquidityNonNegative == \A b \in BinIds : bins[b].liquidity >= 0

(* ------------------------------- C2 ------------------------------------ *)
\* C2: after every call, successful or failed, every LP account's
\* total_shares equals the sum of the values of its bin_positions.
C2_TotalSharesIsSumOfPositions ==
    \A lp \in DOMAIN lp_accounts :
        lp_accounts[lp].total_shares = SumValues(lp_accounts[lp].bin_positions)

(* ------------------------------- C3 ------------------------------------ *)
\* C3: whenever swap, add_liquidity or remove_liquidity raises, all bin
\* liquidities, all lp_shares and all LP accounts are as before the call.
C3_FailureIsAtomic ==
    [][ ( /\ last'.op \in {"swap", "add_liquidity", "remove_liquidity"}
          /\ last'.err # "none" )
        => EngineUnchanged ]_vars

(* ------------------------------- C4 ------------------------------------ *)
\* C4: a swap at a price no bin covers fails with NoLiquidityForPrice, a swap
\* for more than the matched bin's liquidity fails with InsufficientLiquidity;
\* either way the engine state is unchanged and neither the volatility source
\* nor the fee model is invoked.
C4_SwapRejections ==
    [][ last'.op = "swap" =>
          LET p == last'.price
              a == last'.amount
              quiet == /\ EngineUnchanged
                       /\ last'.vol_calls = 0
                       /\ last'.fee_calls = 0
          IN  /\ Covering(p) = {}
                 => last'.err = "NoLiquidityForPrice" /\ quiet
              /\ \A b \in Covering(p) :
                    a > bins[b].liquidity
                    => last'.err = "InsufficientLiquidity" /\ quiet ]_vars

\* a swap was turned down for lack of liquidity in a bin that has a holder
C4_Witness ==
    /\ last.op = "swap"
    /\ last.err = "InsufficientLiquidity"
    /\ \E b \in Covering(last.price) :
          /\ bins[b].liquidity < last.amount
          /\ bins[b].liquidity > 0
          /\ DOMAIN bins[b].lp_shares # {}

(* ------------------------------- C5 ------------------------------------ *)
\* C5: remove_liquidity fails with InvalidBin on an unknown bin_id, and on a
\* known bin with InsufficientShares whenever the LP has no account or holds
\* fewer than amount shares in that bin (shares in other bins do not count);
\* the engine state is unchanged in each case.
C5_RemoveRejections ==
    [][ last'.op = "remove_liquidity" =>
          LET lp == last'.lp_address
              b == last'.bin_id
              a == last'.amount
          IN  /\ b \notin BinIds
                 => last'.err = "InvalidBin" /\ EngineUnchanged
              /\ ( /\ b \in BinIds
                   /\ \/ lp \notin DOMAIN lp_accounts
                      \/ Get(bins[b].lp_shares, lp) < a )
                 => last'.err = "InsufficientShares" /\ EngineUnchanged
        ]_vars

\* an LP that holds enough shares, but all of them in another bin, was
\* turned down
C5_Witness ==
    /\ last.op = "remove_liquidity"
    /\ last.err = "InsufficientShares"
    /\ last.bin_id \in BinIds
    /\ last.amount > 0
    /\ last.lp_address \in DOMAIN lp_accounts
    /\ last.lp_address \notin DOMAIN bins[last.bin_id].lp_shares
    /\ lp_accounts[last.lp_address].total_shares >= last.amount

(* ------------------------------- C6 ------------------------------------ *)
\* C6: removing exactly the shares an LP holds in a bin completes without
\* error, leaves bin_positions[bin] and bin.lp_shares[lp] at zero and lowers
\* total_shares and the bin's liquidity by that amount, whatever swaps or
\* reallocation have done to the bin's liquidity since the deposit.
C6_RemoveAllHeld ==
    [][ ( /\ last'.op = "remove_liquidity"
          /\ last'.bin_id \in BinIds
          /\ last'.lp_address \in DOMAIN lp_accounts
          /\ last'.lp_address \in DOMAIN bins[last'.bin_id].lp_shares
          /\ last'.amount > 0
          /\ last'.amount = bins[last'.bin_id].lp_shares[last'.lp_address] )
        => LET lp == last'.lp_address
               b == last'.bin_id
               a == last'.amount
           IN  /\ last'.err = "none"
               /\ bins'[b].lp_shares[lp] = 0
               /\ lp_accounts'[lp].bin_positions[b] = 0
               /\ lp_accounts'[lp].total_shares
                    = lp_accounts[lp].total_shares - a
               /\ bins'[b].liquidity = bins[b].liquidity - a ]_vars

(* ------------------------------- C7 ------------------------------------ *)
\* C7: add_liquidity on a known bin raises the bin's liquidity, the LP's
\* total_shares, its bin_positions[bin_id] and bin.lp_shares[lp] by exactly
\* amount, creating the account if absent, and changes no other bin and no
\* other LP; on an unknown bin_id it fails with InvalidBin, creates no
\* account and changes nothing.
C7_AddLiquidity ==
    [][ last'.op = "add_liquidity" =>
          LET lp == last'.lp_address
              b == last'.bin_id
              a == last'.amount
              old == IF lp \in DOMAIN lp_accounts
                     THEN lp_accounts[lp] ELSE LPAccount(lp)
          IN  /\ b \notin BinIds
                 => last'.err = "InvalidBin" /\ EngineUnchanged
              /\ b \in BinIds
                 => /\ last'.err = "none"
                    /\ bins'[b].liquidity = bins[b].liquidity + a
                    /\ DOMAIN lp_accounts' = DOMAIN lp_accounts \cup {lp}
                    /\ lp_accounts'[lp].total_shares = old.total_shares + a
                    /\ lp_accounts'[lp].bin_positions[b]
                         = Get(old.bin_positions, b) + a
                    /\ bins'[b].lp_shares[lp] = Get(bins[b].lp_shares, lp) + a
                    /\ \A c \in BinIds \ {b} : bins'[c] = bins[c]
                    /\ \A o \in DOMAIN lp_accounts \ {lp} :
                          lp_accounts'[o] = lp_accounts[o]
                    /\ \A o \in DOMAIN bins[b].lp_shares \ {lp} :
                          bins'[b].lp_shares[o] = bins[b].lp_shares[o]
        ]_vars

(* ------------------------------- C8 ------------------------------------ *)
\* C8: a successful swap acts on the one bin whose interval
\* [lower_bound, upper_bound) holds price: that bin's liquidity falls by
\* exactly amount, the result is {filled = amount, fee = FeeModel(price,
\* volatility), received = amount - fee, bin_id}, the volatility source is
\* queried once, and no other bin and no LP's shares or positions change.
C8_SwapEffect ==
    [][ (last'.op = "swap" /\ last'.err = "none") =>
          LET p == last'.price
              a == last'.amount
              fee == FeeModel(last'.volatility)
          IN  \E b \in BinIds :
                 /\ Covering(p) = {b}
                 /\ bins'[b].liquidity = bins[b].liquidity - a
                 /\ last'.result = [filled |-> a, fee |-> fee,
                                    received |-> a * FeeScale - fee,
                                    bin_id |-> b]
                 /\ last'.vol_calls = 1
                 /\ bins'[b].lp_shares = bins[b].lp_shares
                 /\ \A c \in BinIds \ {b} : bins'[c] = bins[c]
                 /\ Holdings(lp_accounts') = Holdings(lp_accounts) ]_vars

\* a swap at the bound shared by bins 1 and 2 went through in bin 2, at the
\* floor fee, while an LP holds shares
C8_Witness ==
    /\ last.op = "swap"
    /\ last.err = "none"
    /\ last.amount > 0
    /\ last.price = BinBounds[1].upper_bound
    /\ last.result.bin_id = 2
    /\ last.result.fee = FeeFloor
    /\ DOMAIN lp_accounts # {}

(* ------------------------------- C9 ------------------------------------ *)
\* C9: a successful swap in a bin whose total shares are positive credits
\* every LP holding s shares there with exactly fee * s / total_shares, LPs
\* without shares in the bin with nothing, and the credits sum to fee; a sole
\* shareholder is credited exactly fee.
C9_ProRataAccrual ==
    [][ ( /\ last'.op = "swap"
          /\ last'.err = "none"
          /\ SumValues(bins[last'.result.bin_id].lp_shares) > 0 )
        => LET shares == bins[last'.result.bin_id].lp_shares
               total == SumValues(shares)
               fee == last'.result.fee
               gain == [lp \in DOMAIN lp_accounts |->
                          RatSub(lp_accounts'[lp].rewards,
                                 lp_accounts[lp].rewards)]
           IN  /\ DOMAIN lp_accounts' = DOMAIN lp_accounts
               /\ \A lp \in DOMAIN lp_accounts :
                     IF lp \in DOMAIN shares
                     THEN gain[lp][1] * total = fee * shares[lp] * gain[lp][2]
                     ELSE gain[lp] = RatZero
               /\ RatSumOver(gain, DOMAIN gain) = << fee, 1 >>
               /\ \A lp \in DOMAIN shares :
                     DOMAIN shares = {lp} => gain[lp] = << fee, 1 >> ]_vars

\* a swap paid its fee to two holders of unequal shares
C9_Witness ==
    /\ last.op = "swap"
    /\ last.err = "none"
    /\ LET shares == bins[last.result.bin_id].lp_shares
       IN  /\ DOMAIN shares = LPs
           /\ \A lp \in LPs : shares[lp] > 0
           /\ \E x, y \in LPs :
                 /\ shares[x] < shares[y]
                 /\ lp_accounts[x].rewards[1] > 0
                 /\ lp_accounts[y].rewards[1] > 0
                 /\ lp_accounts[x].rewards # lp_accounts[y].rewards

(* ------------------------------- C10 ----------------------------------- *)
\* C10: a swap that passes the liquidity check in a bin whose lp_shares sum
\* to zero (no entries, or entries that cancel or are zero) completes without
\* error and leaves every LP's rewards unchanged.
C10_ZeroSharesNoAccrual ==
    [][ ( /\ last'.op = "swap"
          /\ \E b \in Covering(last'.price) :
                /\ bins[b].liquidity >= last'.amount
                /\ SumValues(bins[b].lp_shares) = 0 )
        => /\ last'.err = "none"
           /\ DOMAIN lp_accounts' = DOMAIN lp_accounts
           /\ \A lp \in DOMAIN lp_accounts :
                 lp_accounts'[lp].rewards = lp_accounts[lp].rewards ]_vars

\* a swap went through in a bin whose only share entry had been withdrawn
\* in full
C10_Witness ==
    /\ last.op = "swap"
    /\ last.err = "none"
    /\ last.amount > 0
    /\ LET shares == bins[last.result.bin_id].lp_shares
       IN  /\ DOMAIN shares # {}
           /\ \A lp \in DOMAIN shares :
                 shares[lp] = 0 /\ lp_accounts[lp].rewards = RatZero

(* ------------------------------- C14 ----------------------------------- *)
\* C14: with the default fee model no step of any sequence of calls lowers
\* any LP's rewards.
C14_RewardsNeverDecrease ==
    [][ \A lp \in DOMAIN lp_accounts :
           /\ lp \in DOMAIN lp_accounts'
           /\ RatLeq(lp_accounts[lp].rewards, lp_accounts'[lp].rewards) ]_vars

(* ------------------------------- C15 ----------------------------------- *)
\* C15: in every reachable state every entry of every bin's lp_shares and of
\* every LP's bin_positions is >= 0, whatever amounts the engine accepted.
C15_SharesNonNegative ==
    /\ \A b \in BinIds : \A lp \in DOMAIN bins[b].lp_shares :
          bins[b].lp_shares[lp] >= 0
    /\ \A lp \in DOMAIN lp_accounts :
          \A b \in DOMAIN lp_accounts[lp].bin_positions :
             lp_accounts[lp].bin_positions[b] >= 0

(* ------------------------------- C16 ----------------------------------- *)
\* C16: get_lp_summary(lp) fails with LpNotFound exactly when no
\* add_liquidity has yet returned for lp; an LP that has deposited is found
\* by every later query, also after withdrawing all its shares, and the
\* summary carries the account's address, total_shares, bin_positions and
\* rewards.
C16_SummaryFoundIffDeposited ==
    [][ /\ deposited \subseteq deposited'
        /\ last'.op = "get_lp_summary" =>
              LET lp == last'.lp_address
              IN  /\ last'.err \in {"none", "LpNotFound"}
                  /\ last'.err = "LpNotFound" <=> lp \notin deposited
                  /\ last'.err = "none" =>
                        /\ summary'.address = lp
                        /\ summary'.total_shares = lp_accounts[lp].total_shares
                        /\ summary'.bin_positions.at_call
                             = lp_accounts[lp].bin_positions
                        /\ summary'.rewards = lp_accounts[lp].rewards ]_vars

\* an LP that deposited and then withdrew everything was still found
C16_Witness ==
    /\ last.op = "get_lp_summary"
    /\ last.err = "none"
    /\ summary.address = last.lp_address
    /\ summary.total_shares = 0
    /\ \E b \in BinIds :
          /\ b \in DOMAIN lp_accounts[last.lp_address].bin_positions
          /\ lp_accounts[last.lp_address].bin_positions[b] = 0
          /\ bins[b].lp_shares[last.lp_address] = 0

(* ------------------------------- C17 ----------------------------------- *)
\* C17: the bin_positions a caller got from get_lp_summary stays equal to the
\* LP's positions at the time of the call, whatever add_liquidity or
\* remove_liquidity does afterwards.
C17_SummaryIsSnapshot ==
    summary.address # "" =>
        Deref(summary.bin_positions) = summary.bin_positions.at_call

(* ------------------------------- C18 ----------------------------------- *)
\* C18: the two share ledgers agree: an LP is a key of a bin's lp_shares
\* exactly when it has an account whose bin_positions holds that bin, and
\* then the two values are equal.
C18_LedgersAgree ==
    \A b \in BinIds : \A a \in LPs :
        LET inShares == a \in DOMAIN bins[b].lp_shares
            inPositions == /\ a \in DOMAIN lp_accounts
                           /\ b \in DOMAIN lp_accounts[a].bin_positions
        IN  /\ inShares <=> inPositions
            /\ inShares =>
                  bins[b].lp_shares[a] = lp_accounts[a].bin_positions[b]
            /\ DOMAIN bins[b].lp_shares \subseteq LPs

\* both LPs hold shares, in different amounts, and a removal has just gone
\* through
C18_Witness ==
    /\ last.op = "remove_liquidity"
    /\ last.err = "none"
    /\ last.amount > 0
    /\ \E b \in BinIds :
          /\ DOMAIN bins[b].lp_shares = LPs
          /\ \E x, y \in LPs : bins[b].lp_shares[x] < bins[b].lp_shares[y]

(* ------------------------------- C19 ----------------------------------- *)
\* the first bin of greatest width, in bin_id order
Widest ==
    CHOOSE h \in DOMAIN bins :
       \A c \in DOMAIN bins :
          LET w(b) == bins[b].upper_bound - bins[b].lower_bound
          IN  w(c) < w(h) \/ (w(c) = w(h) /\ h <= c)

\* C19: reallocate_liquidity with the default policy moves one tenth of the
\* liquidity of every bin other than the widest that holds more than 100,000
\* units into the widest bin and touches nothing else: the total liquidity is
\* the same, bins at or below the threshold are unchanged, no bin becomes
\* negative, and no lp_shares, bin_positions, total_shares or rewards change.
C19_DefaultReallocation ==
    [][ last'.op = "reallocate_liquidity" =>
          LET ids == DOMAIN bins
              movers == {b \in ids \ {Widest} :
                            bins[b].liquidity > ReallocThreshold}
              liq == [b \in ids |-> bins[b].liquidity]
              liq2 == [b \in ids |-> bins'[b].liquidity]
          IN  /\ \A b \in movers : ReallocDivisor * liq2[b]
                                     = (ReallocDivisor - 1) * liq[b]
              /\ \A b \in ids \ (movers \cup {Widest}) : liq2[b] = liq[b]
              /\ SumValues(liq2) = SumValues(liq)
              /\ \A b \in ids : liq[b] >= 0 => liq2[b] >= 0
              /\ \A b \in ids : bins'[b].lp_shares = bins[b].lp_shares
              /\ lp_accounts' = lp_accounts ]_vars

(* C11: a step of the threads either leaves the engine as whole calls left  *)
(* it, or is one whole swap, add_liquidity, remove_liquidity or             *)
(* reallocate_liquidity of the sequential engine, with that call's result   *)
(* and effect: concurrent calls amount to running them one after another in *)
(* the order of their releases, and no call sees another one half done.     *)
C11_Serializable == [][LockedCall]_seqvars

\* a thread waits for the lock while another one is half way through a call
C11_Witness ==
    \E t \in Threads, u \in Threads :
        /\ t # u
        /\ threads[t].pc = "acquire"
        /\ lock = u
        /\ threads[u].op \in {"swap", "add_liquidity", "remove_liquidity"}
        /\ heap # [bins |-> bins, lp_accounts |-> lp_accounts]

(* C12: what a finished get_lp_summary reports is the LP's account as some  *)
(* whole call left it, at a moment between the query's start and its end.   *)
C12_SummaryLinearizable ==
    \A t \in Threads :
        ( /\ threads[t].op = "get_lp_summary"
          /\ threads[t].pc = "done" )
        => threads[t].view \in threads[t].seen

\* a query reports an account that exists and holds no shares and no
\* positions, while the only deposit of that LP is still under way
C12_HalfAppliedAdd ==
    \E t \in Threads, u \in Threads :
        /\ threads[t].op = "get_lp_summary"
        /\ threads[t].pc = "done"
        /\ threads[t].view.found
        /\ threads[t].view.total_shares = 0
        /\ threads[t].view.bin_positions = << >>
        /\ threads[u].op = "add_liquidity"
        /\ lock = u
        /\ deposited = {}

(* C13: once a callback has called back into the engine, the inner call is  *)
(* never over and the outer call never completes.                           *)
C13_ReentryDeadlocks ==
    \A t \in Threads :
        threads[t].reentered # "none"
        => /\ threads[t].nested
           /\ threads[t].pc \notin {"release", "done"}

\* a call whose callback called get_lp_summary has completed
C13_ReentrantQueryReturns ==
    \E t \in Threads :
        /\ threads[t].reentered = "get_lp_summary"
        /\ threads[t].pc = "done"
        /\ lock = "free"

(* C20: with callbacks that return and keep out of the engine, every call   *)
(* that was started is over in the end, by return or by raise, and a thread *)
(* whose call is over does not hold the lock.                               *)
C20_CallsCompleteLockFree ==
    /\ \A t \in Threads :
          (threads[t].pc \notin {"idle", "done"}) ~> (threads[t].pc = "done")
    /\ [](\A t \in Threads :
             threads[t].pc \in {"idle", "done"} => lock # t)

\* a call that raised inside the locked body is over and the lock is free
C20_Witness ==
    \E t \in Threads :
        /\ threads[t].pc = "done"
        /\ threads[t].err \in {"InsufficientLiquidity", "NegativeLiquidity",
                               "InsufficientShares", "InvalidBin"}
        /\ lock = "free"

====
